---- MODULE Spec2Model ----
(***************************************************************************)
(* Model of import_opt.py: the per-file import rewriting engine            *)
(* (class ImportOptimizer) and the file it reads and rewrites.             *)
(*                                                                         *)
(* Text is modelled by TLA+ strings; a character is a string of length 1.  *)
(* Buffer positions are 1-based here: position p is Python index p - 1.    *)
(***************************************************************************)
EXTENDS Integers, Sequences, FiniteSets, TLC

(***************************************************************************)
(* Bounds of the model.                                                    *)
(***************************************************************************)
\* longest input file, in lines
MaxLines == 3
\* cap on the iterations of the search/replace loop of one line
MaxIter == 6

(***************************************************************************)
(* Characters and the str methods the program uses.                        *)
(***************************************************************************)
\* the characters of the inputs, in code point order
Ascii == "\n \"#'(),.0123456789=_abcdefghijklmnopqrstuvwxyz"

At(s, i) == SubSeq(s, i, i)

Ord(c) == CHOOSE i \in 1..Len(Ascii) : At(Ascii, i) = c

\* str.isspace for one character
Whitespace == {" ", "\n"}

\* the class \w of the re module
WordChars == {At(Ascii, i) : i \in 10..Len(Ascii)} \ {"="}

IsWord(c) == c \in WordChars

startswith(s, p) == Len(s) >= Len(p) /\ SubSeq(s, 1, Len(p)) = p

endswith(s, p) == Len(s) >= Len(p) /\ SubSeq(s, Len(s) - Len(p) + 1, Len(s)) = p

RECURSIVE rstrip(_)
rstrip(s) ==
    IF Len(s) > 0 /\ At(s, Len(s)) \in Whitespace
    THEN rstrip(SubSeq(s, 1, Len(s) - 1))
    ELSE s

RECURSIVE lstrip(_)
lstrip(s) ==
    IF Len(s) > 0 /\ At(s, 1) \in Whitespace
    THEN lstrip(SubSeq(s, 2, Len(s)))
    ELSE s

strip(s) == lstrip(rstrip(s))

\* str.find, 1-based, 0 when sub does not occur
find(s, sub) ==
    LET hits == {i \in 1..(Len(s) - Len(sub) + 1) : SubSeq(s, i, i + Len(sub) - 1) = sub}
    IN IF hits = {} THEN 0 ELSE CHOOSE i \in hits : \A j \in hits : i <= j

\* str.replace(old, new): every non-overlapping occurrence, left to right
RECURSIVE replace(_, _, _)
replace(s, old, new) ==
    LET i == find(s, old)
    IN IF i = 0 \/ old = ""
       THEN s
       ELSE SubSeq(s, 1, i - 1) \o new
            \o replace(SubSeq(s, i + Len(old), Len(s)), old, new)

\* str.split(sep), sep not empty
RECURSIVE str_split(_, _)
str_split(s, sep) ==
    LET i == find(s, sep)
    IN IF i = 0
       THEN <<s>>
       ELSE <<SubSeq(s, 1, i - 1)>> \o str_split(SubSeq(s, i + Len(sep), Len(s)), sep)

\* sep.join(parts)
RECURSIVE join(_, _)
join(sep, parts) ==
    IF parts = <<>> THEN ""
    ELSE IF Len(parts) = 1 THEN parts[1]
    ELSE parts[1] \o sep \o join(sep, Tail(parts))

\* s < t for Python strings: code points, lexicographic
RECURSIVE StrLess(_, _)
StrLess(s, t) ==
    IF Len(t) = 0 THEN FALSE
    ELSE IF Len(s) = 0 THEN TRUE
    ELSE IF At(s, 1) = At(t, 1)
         THEN StrLess(SubSeq(s, 2, Len(s)), SubSeq(t, 2, Len(t)))
         ELSE Ord(At(s, 1)) < Ord(At(t, 1))

\* sorted(S) for a set of strings
RECURSIVE sorted(_)
sorted(S) ==
    IF S = {} THEN <<>>
    ELSE LET m == CHOOSE x \in S : \A y \in S \ {x} : StrLess(x, y)
         IN <<m>> \o sorted(S \ {m})

\* the lines a text file yields when iterated, each with its terminator
RECURSIVE readlines(_)
readlines(text) ==
    LET i == find(text, "\n")
    IN IF text = "" THEN <<>>
       ELSE IF i = 0 THEN <<text>>
       ELSE <<SubSeq(text, 1, i)>> \o readlines(SubSeq(text, i + 1, Len(text)))

\* the largest e >= i - 1 such that s[i..e] are all word characters
RECURSIVE WordEnd(_, _)
WordEnd(s, i) ==
    IF i <= Len(s) /\ IsWord(At(s, i)) THEN WordEnd(s, i + 1) ELSE i - 1

(***************************************************************************)
(* Module-level functions.                                                 *)
(***************************************************************************)
\* identifiers_re.findall(line) from index i on: the maximal runs of \w
RECURSIVE findall(_, _)
findall(line, i) ==
    IF i > Len(line) THEN <<>>
    ELSE IF IsWord(At(line, i))
         THEN <<SubSeq(line, i, WordEnd(line, i))>> \o findall(line, WordEnd(line, i) + 1)
         ELSE findall(line, i + 1)

split(line) == findall(line, 1)

extract_imports(line) == str_split(SubSeq(line, Len("import ") + 1, Len(line)), ",")

(***************************************************************************)
(* Helpers on dicts, modelled as functions.                                *)
(***************************************************************************)
EmptyDict == <<>>

Max(S) == CHOOSE m \in S : \A x \in S : x <= m

Min(S) == CHOOSE m \in S : \A x \in S : m <= x

Range(f) == {f[x] : x \in DOMAIN f}

\* d with d[k].add(v), d a defaultdict(set)
DictAdd(d, k, v) ==
    [x \in DOMAIN d \cup {k} |->
        (IF x \in DOMAIN d THEN d[x] ELSE {}) \cup (IF x = k THEN {v} ELSE {})]

\* d.get(k, [])
Get(d, k) == IF k \in DOMAIN d THEN d[k] ELSE {}

(***************************************************************************)
(* State.                                                                  *)
(***************************************************************************)
VARIABLES
    disk,            \* content of the file at fullpath
    pc,              \* the statement of main / the context manager reached
    run,             \* number of the current invocation on the file
    orig,            \* content of the file when this run read it
    writes,          \* number of times this run opened the file for writing
    content,         \* the string handed to handle.write, once assembled
    data,            \* self.data
    lines,           \* self.lines
    imports,         \* self.imports
    inv_imports,     \* self.inv_imports
    direct_imports,  \* self.direct_imports
    file_words,      \* self.file_words, each list taken as the set of its items
    iters,           \* the iterations of the loop at line 121: the match and s before, after
    exhausted        \* TRUE when a loop at line 121 was cut off after MaxIter iterations

vars == <<disk, pc, run, orig, writes, content, data, lines, imports, inv_imports,
          direct_imports, file_words, iters, exhausted>>

(***************************************************************************)
(* ImportOptimizer._strip_comment_blocks and _build_valid_lines.           *)
(***************************************************************************)
\* comment_lines as the loop at line 50 builds it, from position i on
RECURSIVE comment_lines(_, _, _)
comment_lines(d, delimiter, i) ==
    IF i > Len(d) THEN <<>>
    ELSE LET x == strip(d[i])
             s == startswith(x, delimiter)
             e == endswith(x, delimiter)
             here == IF x = delimiter
                     THEN <<i>>
                     ELSE (IF s \/ e THEN <<i>> ELSE <<>>) \o (IF s /\ e THEN <<i>> ELSE <<>>)
         IN here \o comment_lines(d, delimiter, i + 1)

\* the positions of range(s, e) over all pairs, when the count is even
PairedRanges(cl) ==
    IF Len(cl) % 2 = 0
    THEN UNION {cl[2 * k - 1]..cl[2 * k] : k \in 1..(Len(cl) \div 2)}
    ELSE {}

\* strip_comment_blocks with range(s, e) ending before the closing line
strip_comment_blocks_exclusive(d, ls, delimiter) ==
    LET cl == comment_lines(d, delimiter, 1)
        ranges == IF Len(cl) % 2 = 0
                  THEN UNION {cl[2 * k - 1]..(cl[2 * k] - 1) : k \in 1..(Len(cl) \div 2)}
                  ELSE {}
    IN [p \in DOMAIN ls \ ranges |-> ls[p]]

strip_comment_blocks(d, ls, delimiter) ==
    LET deletable == DOMAIN ls \cap PairedRanges(comment_lines(d, delimiter, 1))
    IN [p \in DOMAIN ls \ deletable |-> ls[p]]

build_valid_lines(d) ==
    LET live == {i \in 1..Len(d) : d[i] # "" /\ ~startswith(d[i], "#")}
        ls0 == [i \in live |-> d[i]]
        ls1 == strip_comment_blocks(d, ls0, "\"\"\"")
    IN strip_comment_blocks(d, ls1, "'''")

(***************************************************************************)
(* ImportOptimizer._build_imports and _build_file_words.                   *)
(***************************************************************************)
\* the (import_name, alias) pairs of one import line, lines 86-89
import_items(line) ==
    LET ws == extract_imports(line)
    IN [k \in 1..Len(ws) |->
          LET words == str_split(ws[k], " as ")
          IN <<words[1], words[Len(words)]>>]

build_imports(ls) ==
    [i \in {j \in DOMAIN ls : startswith(ls[j], "import ")} |-> import_items(ls[i])]

\* the dict comprehension at line 90: a later line replaces an earlier one
build_inv_imports(imps) ==
    LET names == UNION {{imps[i][k][1] : k \in 1..Len(imps[i])} : i \in DOMAIN imps}
    IN [n \in names |->
          Max({i \in DOMAIN imps : \E k \in 1..Len(imps[i]) : imps[i][k][1] = n})]

build_file_words(ls, imps) ==
    LET js == DOMAIN ls \ DOMAIN imps
        words == UNION {Range(split(ls[j])) : j \in js}
    IN [w \in words |-> {j \in js : w \in Range(split(ls[j]))}]

(***************************************************************************)
(* ImportOptimizer._build_direct_imports.                                  *)
(***************************************************************************)
\* the ends of the consecutive groups \.\w+ that start at p
RECURSIVE chain(_, _)
chain(s, p) ==
    IF p < Len(s) /\ At(s, p) = "." /\ IsWord(At(s, p + 1))
    THEN <<WordEnd(s, p + 1)>> \o chain(s, WordEnd(s, p + 1) + 1)
    ELSE <<>>

\* (?<=alias) at p: alias is compiled as a pattern, so its "." matches any
\* character but a newline and its other characters match themselves
lookbehind(alias, s, p) ==
    /\ p - 1 >= Len(alias)
    /\ \A k \in 1..Len(alias) :
          LET a == At(alias, k)
              c == At(s, p - 1 - Len(alias) + k)
          IN IF a = "." THEN c # "\n" ELSE a = c

\* match_groups with the group fn spanning the whole chain
match_groups_whole_chain(s, p, g) ==
    [pos |-> p,
     path |-> SubSeq(s, p, IF Len(g) >= 2 THEN g[Len(g) - 1] ELSE p - 1),
     fn |-> SubSeq(s, p, g[Len(g)])]

\* the groups path and fn of a match at p whose chain of groups ends at g:
\* path takes every group but the last, fn the last one
match_groups(s, p, g) ==
    [pos |-> p,
     path |-> SubSeq(s, p, IF Len(g) >= 2 THEN g[Len(g) - 1] ELSE p - 1),
     fn |-> SubSeq(s, IF Len(g) >= 2 THEN g[Len(g) - 1] + 1 ELSE p, g[Len(g)])]

\* the match at the leftmost of the positions hits; pos = 0 stands for None
leftmost_match(s, hits) ==
    IF hits = {}
    THEN [pos |-> 0, path |-> "", fn |-> ""]
    ELSE match_groups(s, Min(hits), chain(s, Min(hits)))

\* alias_re.search(s)
search(alias, s) ==
    leftmost_match(s, {p \in 1..Len(s) : lookbehind(alias, s, p) /\ chain(s, p) # <<>>})

\* lines 132-135: the key is alias_path in both branches
add_direct_import(di, alias, alias_path, fn) ==
    IF alias_path # alias
    THEN DictAdd(di, alias_path, fn)
    ELSE DictAdd(di, alias, fn)

\* one iteration of the loop at line 121 that found repl and turned s into s2;
\* st = [s, di, iters, exhausted]
iteration(alias, st, repl, s2) ==
    [s |-> s2,
     di |-> add_direct_import(st.di, alias, alias \o repl.path,
                              SubSeq(repl.fn, 2, Len(repl.fn))),
     iters |-> st.iters \cup
         {[alias |-> alias, pos |-> repl.pos, path |-> repl.path, fn |-> repl.fn,
           before |-> st.s, after |-> s2]},
     exhausted |-> st.exhausted]

\* the loop "while True" at line 121 on one line, cut off after fuel iterations
RECURSIVE resolve_line(_, _, _)
RECURSIVE resolve_match(_, _, _, _)
resolve_match(alias, st, fuel, repl) ==
    IF repl.pos = 0 THEN st
    ELSE IF fuel = 0 THEN [st EXCEPT !.exhausted = TRUE]
    ELSE resolve_line(alias,
                      iteration(alias, st, repl,
                                replace(st.s, alias \o repl.path \o repl.fn,
                                        SubSeq(repl.fn, 2, Len(repl.fn)))),
                      fuel - 1)

resolve_line(alias, st, fuel) == resolve_match(alias, st, fuel, search(alias, st.s))

\* line 137: r is the outcome of the loop on data[lineno]; st = [data, di, iters, exhausted]
store_line(st, lineno, r) ==
    [data |-> [st.data EXCEPT ![lineno] = r.s], di |-> r.di, iters |-> r.iters,
     exhausted |-> r.exhausted]

\* line 120
load_line(st, lineno) ==
    [s |-> st.data[lineno], di |-> st.di, iters |-> st.iters, exhausted |-> st.exhausted]

\* the loop over places_used at line 119
RECURSIVE resolve_places(_, _, _)
resolve_places(alias, places, st) ==
    IF places = {} THEN st
    ELSE resolve_places(alias, places \ {Min(places)},
                        store_line(st, Min(places),
                                   resolve_line(alias, load_line(st, Min(places)), MaxIter)))

\* the (import_name, alias) pairs of all import lines, in the order of the
\* loops at lines 111 and 113
RECURSIVE import_pairs(_, _)
import_pairs(imps, todo) ==
    IF todo = {} THEN <<>>
    ELSE imps[Min(todo)] \o import_pairs(imps, todo \ {Min(todo)})

\* lines 116-118
places_used(alias, imps, fw) == Get(fw, alias) \ DOMAIN imps

RECURSIVE resolve_imports(_, _, _, _)
resolve_imports(pairs, imps, fw, st) ==
    IF pairs = <<>> THEN st
    ELSE resolve_imports(Tail(pairs), imps, fw,
                         resolve_places(pairs[1][2], places_used(pairs[1][2], imps, fw), st))

build_direct_imports(d, imps, fw) ==
    resolve_imports(import_pairs(imps, DOMAIN imps), imps, fw,
                    [data |-> d, di |-> EmptyDict, iters |-> {}, exhausted |-> FALSE])

(***************************************************************************)
(* ImportOptimizer._replace_direct_imports.                                *)
(***************************************************************************)
\* the statement of line 142
direct_import_stmt(direct_import, fns) ==
    "from " \o direct_import \o " import " \o join(", ", sorted(fns))

\* the loop at line 141 over the sorted keys; st = [data, ok], ok = FALSE
\* once data[i] at line 148 raised IndexError
RECURSIVE replace_keys(_, _, _, _, _)
replace_keys(keys, dimps, imps, inv, st) ==
    IF keys = <<>> \/ ~st.ok THEN st
    ELSE LET direct_import == keys[1]
             di == direct_import_stmt(direct_import, dimps[direct_import])
             i == Max(DOMAIN imps) + 1
             next ==
                 IF direct_import \in DOMAIN inv
                 THEN [data |-> [st.data EXCEPT ![inv[direct_import]] = di], ok |-> TRUE]
                 ELSE IF i > Len(st.data)
                      THEN [data |-> st.data, ok |-> FALSE]
                      ELSE [data |-> [st.data EXCEPT ![i] = di \o "\n" \o st.data[i]],
                            ok |-> TRUE]
         IN replace_keys(Tail(keys), dimps, imps, inv, next)

replace_direct_imports(d, dimps, imps, inv) ==
    replace_keys(sorted(DOMAIN dimps), dimps, imps, inv, [data |-> d, ok |-> TRUE])

(***************************************************************************)
(* Input files: up to MaxLines lines, each drawn from Pool.                *)
(***************************************************************************)
Pool ==
    { "import os",
      "os.getcwd()",
      "os.path.join(a)",
      "import alpha.beta as x",
      "x.foo(x.bar.baz)",
      "max.foo(x.bar)",
      "import sys, os",
      "",
      "\"\"\"",
      "'''os.sep'''",
      "# os.sep  " }

RECURSIVE Texts(_)
Texts(n) ==
    IF n = 0 THEN {""}
    ELSE {t \o l \o "\n" : t \in Texts(n - 1), l \in Pool}

Files == UNION {Texts(n) : n \in 0..MaxLines}

(***************************************************************************)
(* The run of main on one file, and a later run on the same file.          *)
(***************************************************************************)
\* number of invocations of main on the file
MaxRuns == 2

Init ==
    /\ disk \in Files
    /\ pc = "start"
    /\ run = 1
    /\ orig = disk
    /\ writes = 0
    /\ content = ""
    /\ data = <<>>
    /\ lines = EmptyDict
    /\ imports = EmptyDict
    /\ inv_imports = EmptyDict
    /\ direct_imports = EmptyDict
    /\ file_words = EmptyDict
    /\ iters = {}
    /\ exhausted = FALSE

\* ImportOptimizer.__init__
Construct ==
    /\ pc = "start"
    /\ LET handle == readlines(disk)
       IN data' = [i \in 1..Len(handle) |-> rstrip(handle[i])]
    /\ lines' = EmptyDict
    /\ imports' = EmptyDict
    /\ inv_imports' = EmptyDict
    /\ direct_imports' = EmptyDict
    /\ file_words' = EmptyDict
    /\ orig' = disk
    /\ writes' = 0
    /\ content' = ""
    /\ iters' = {}
    /\ exhausted' = FALSE
    /\ pc' = "build_valid_lines"
    /\ UNCHANGED <<disk, run>>

\* __enter__, line 159
BuildValidLines ==
    /\ pc = "build_valid_lines"
    /\ lines' = build_valid_lines(data)
    /\ pc' = "build_imports"
    /\ UNCHANGED <<disk, run, orig, writes, content, data, imports, inv_imports,
                   direct_imports, file_words, iters, exhausted>>

\* __enter__, line 160
BuildImports ==
    /\ pc = "build_imports"
    /\ imports' = build_imports(lines)
    /\ inv_imports' = build_inv_imports(build_imports(lines))
    /\ pc' = "build_file_words"
    /\ UNCHANGED <<disk, run, orig, writes, content, data, lines, direct_imports,
                   file_words, iters, exhausted>>

\* __enter__, line 161
BuildFileWords ==
    /\ pc = "build_file_words"
    /\ file_words' = build_file_words(lines, imports)
    /\ pc' = "build_direct_imports"
    /\ UNCHANGED <<disk, run, orig, writes, content, data, lines, imports, inv_imports,
                   direct_imports, iters, exhausted>>

\* __enter__, line 162
BuildDirectImports ==
    /\ pc = "build_direct_imports"
    /\ LET r == build_direct_imports(data, imports, file_words)
       IN /\ data' = r.data
          /\ direct_imports' = r.di
          /\ iters' = r.iters
          /\ exhausted' = r.exhausted
    /\ pc' = "replace_direct_imports"
    /\ UNCHANGED <<disk, run, orig, writes, content, lines, imports, inv_imports,
                   file_words>>

\* __exit__, line 167; IndexError leaves __exit__ and ends the run
ReplaceDirectImports ==
    /\ pc = "replace_direct_imports"
    /\ LET r == replace_direct_imports(data, direct_imports, imports, inv_imports)
       IN /\ data' = r.data
          /\ pc' = IF r.ok THEN "rewrite_file" ELSE "error"
    /\ UNCHANGED <<disk, run, orig, writes, content, lines, imports, inv_imports,
                   direct_imports, file_words, iters, exhausted>>

\* _rewrite_file when direct_imports is empty: nothing is opened
RewriteSkip ==
    /\ pc = "rewrite_file"
    /\ DOMAIN direct_imports = {}
    /\ pc' = "done"
    /\ UNCHANGED <<disk, run, orig, writes, content, data, lines, imports, inv_imports,
                   direct_imports, file_words, iters, exhausted>>

\* RewriteOpen without the test of self.direct_imports
RewriteOpen_unguarded ==
    /\ pc = "rewrite_file"
    /\ disk' = ""
    /\ writes' = writes + 1
    /\ pc' = "opened"
    /\ UNCHANGED <<run, orig, content, data, lines, imports, inv_imports,
                   direct_imports, file_words, iters, exhausted>>

\* open(self.fullpath, "w") at line 154: the file is truncated
RewriteOpen ==
    /\ pc = "rewrite_file"
    /\ DOMAIN direct_imports # {}
    /\ disk' = ""
    /\ writes' = writes + 1
    /\ pc' = "opened"
    /\ UNCHANGED <<run, orig, content, data, lines, imports, inv_imports,
                   direct_imports, file_words, iters, exhausted>>

\* the argument of handle.write at line 155 is evaluated
RewriteAssemble ==
    /\ pc = "opened"
    /\ content' = join("\n", data) \o "\n"
    /\ pc' = "assembled"
    /\ UNCHANGED <<disk, run, orig, writes, data, lines, imports, inv_imports,
                   direct_imports, file_words, iters, exhausted>>

\* handle.write and the close at the end of the with block
RewriteWrite ==
    /\ pc = "assembled"
    /\ disk' = content
    /\ pc' = "done"
    /\ UNCHANGED <<run, orig, writes, content, data, lines, imports, inv_imports,
                   direct_imports, file_words, iters, exhausted>>

\* main is run again on the file the previous run left
Rerun ==
    /\ pc = "done"
    /\ run < MaxRuns
    /\ run' = run + 1
    /\ pc' = "start"
    /\ UNCHANGED <<disk, orig, writes, content, data, lines, imports, inv_imports,
                   direct_imports, file_words, iters, exhausted>>

Next ==
    \/ Construct
    \/ BuildValidLines
    \/ BuildImports
    \/ BuildFileWords
    \/ BuildDirectImports
    \/ ReplaceDirectImports
    \/ RewriteSkip
    \/ RewriteOpen
    \/ RewriteAssemble
    \/ RewriteWrite
    \/ Rerun

Spec == Init /\ [][Next]_vars

(***************************************************************************)
(* Properties.                                                             *)
(***************************************************************************)
\* self.data as __init__ of the current run read it
OrigData ==
    LET handle == readlines(orig)
    IN [i \in 1..Len(handle) |-> rstrip(handle[i])]

\* the lines of the text that one buffer position holds
PhysicalLines(s) == str_split(s, "\n")

LastLine(s) == PhysicalLines(s)[Len(PhysicalLines(s))]

\* what _rewrite_file writes
NewContent == join("\n", data) \o "\n"

\* the run has passed _build_direct_imports
AfterResolve ==
    pc \in {"replace_direct_imports", "rewrite_file", "opened", "assembled", "done", "error"}

\* the run has passed _replace_direct_imports
AfterReplace == pc \in {"rewrite_file", "opened", "assembled", "done", "error"}

\* the declared (import_name, alias) pairs
Declared == UNION {Range(imports[i]) : i \in DOMAIN imports}

\* C1: a second run on the file a first run left writes nothing, resolves
\* nothing and leaves the content as it was after the first run.
C1_Idempotence ==
    (run >= 2 /\ pc = "done")
        => (disk = orig /\ writes = 0 /\ DOMAIN direct_imports = {})

\* C2: after one run on "import alpha.beta as x" / "x.foo(x.bar.baz)" the
\* import line reads "from alpha.beta import foo", a line
\* "from alpha.beta.bar import baz" is present and the usage line is "foo(baz)".
C2_ChainExample ==
    (run = 1 /\ pc = "done" /\ orig = "import alpha.beta as x\nx.foo(x.bar.baz)\n")
        => LET out == readlines(disk)
           IN /\ Len(out) >= 1
              /\ out[1] = "from alpha.beta import foo\n"
              /\ "from alpha.beta.bar import baz\n" \in Range(out)
              /\ "foo(baz)\n" \in Range(out)
              /\ \A i \in 1..Len(out) : find(out[i], "x.") = 0

\* C3: a resolved usage alias.sub.member of a declared pair (module_path, alias)
\* puts member under the key module_path.sub.
C3_NestedUnderModulePath ==
    AfterResolve =>
        \A it \in iters : \A d \in Declared :
            (it.path # "" /\ d[2] = it.alias)
                => /\ (d[1] \o it.path) \in DOMAIN direct_imports
                   /\ SubSeq(it.fn, 2, Len(it.fn)) \in direct_imports[d[1] \o it.path]

\* C4: once the file has been opened for writing the new content is already
\* assembled, and the file holds the whole original or the whole new content.
C4_AllOrNothing ==
    pc \in {"opened", "assembled", "done"}
        => /\ (disk = orig \/ disk = NewContent)
           /\ (writes > 0 => content = NewContent)

\* C5: the file is opened for writing only when direct_imports is not empty;
\* a file none of whose live lines begins with "import " is never opened and
\* keeps its content, trailing whitespace included.
C5_NoOpWithoutImports ==
    /\ (writes > 0 => DOMAIN direct_imports # {})
    /\ (/\ pc \notin {"start", "build_valid_lines"}
        /\ \A p \in DOMAIN lines : ~startswith(lines[p], "import "))
            => (writes = 0 /\ disk = orig /\ pc \notin {"opened", "assembled"})

\* a run has ended on a file with live lines, none an import, whose content
\* a rewrite would have changed
C5_Witness ==
    /\ pc = "done"
    /\ DOMAIN lines # {}
    /\ \A p \in DOMAIN lines : ~startswith(lines[p], "import ")
    /\ NewContent # disk
    /\ disk = orig

\* the positions inside the paired ranges of either delimiter style
BlockLines ==
    PairedRanges(comment_lines(OrigData, "\"\"\"", 1))
        \cup PairedRanges(comment_lines(OrigData, "'''", 1))

\* C6: a line inside a paired range of a triple-quote style is not live, is
\* not an import line, is under no word of file_words, keeps its text through
\* alias resolution, and its text is still a line of the final buffer.
C6_CommentBlockImmunity ==
    \A p \in BlockLines :
        /\ pc \notin {"start", "build_valid_lines"}
              => /\ p \notin DOMAIN lines
                 /\ p \notin DOMAIN imports
                 /\ \A w \in DOMAIN file_words : p \notin file_words[w]
        /\ pc = "replace_direct_imports" => data[p] = OrigData[p]
        /\ AfterReplace => LastLine(data[p]) = OrigData[p]
        /\ AfterReplace => p \notin Range(inv_imports)

\* a run has rewritten the file, and a line inside a paired range holds a
\* usage of an alias the run resolved on another line
C6_Witness ==
    /\ pc = "done"
    /\ writes = 1
    /\ \E p \in BlockLines : \E it \in iters : search(it.alias, OrigData[p]).pos # 0

\* C7: every match of the alias pattern starts at an alias that stands as a
\* whole identifier, not at the end of a longer one.
C7_TokenBoundary ==
    \A it \in iters :
        LET start == it.pos - Len(it.alias)
        IN start = 1 \/ ~IsWord(At(it.before, start - 1))

\* C8: every clause of an import line is recorded as (module_path, alias)
\* without surrounding whitespace.
C8_ClausesStripped ==
    \A d \in Declared : strip(d[1]) = d[1] /\ strip(d[2]) = d[2]

\* C9: when a resolved module has no declaring line, _replace_direct_imports
\* completes, keeps the number of positions, and puts the statement as a line
\* in front of the content of the position after the last import line.
C9_InsertionCompletes ==
    [][(pc = "replace_direct_imports" /\ DOMAIN direct_imports \ DOMAIN inv_imports # {})
          => /\ pc' = "rewrite_file"
             /\ Len(data') = Len(data)
             /\ LET i == Max(DOMAIN imports) + 1
                IN /\ i <= Len(data)
                   /\ LastLine(data'[i]) = data[i]
                   /\ \A k \in DOMAIN direct_imports \ DOMAIN inv_imports :
                         direct_import_stmt(k, direct_imports[k])
                             \in Range(PhysicalLines(data'[i]))]_vars

\* C10: every iteration of the search/replace loop that finds a match makes
\* the line strictly shorter, the match is not empty, and no loop runs into
\* the iteration cap.
C10_LoopTerminates ==
    /\ ~exhausted
    /\ \A it \in iters :
          /\ Len(it.after) < Len(it.before)
          /\ Len(it.path \o it.fn) > 0

\* a run has ended in which the loop made two iterations on one line, the
\* first of them on a chain with an intermediate segment
C10_Witness ==
    /\ pc = "done"
    /\ \E a \in iters : \E b \in iters :
          b.before = a.after /\ a.alias = b.alias /\ b.path # ""

====
